---- MODULE Spec2Model ----
(***************************************************************************)
(* Model of src/lib/litra.py: the Litra command encoder (litra_command),   *)
(* the report decoder (Litra.process_result and the __validate_*           *)
(* functions), the validated property setters of the Litra object, the     *)
(* polling loop Litra.test_inputs, and the life of Litra objects over      *)
(* their usb.core.Device transports (__init__, setup_device, on, off,      *)
(* teardown_device, __del__).                                              *)
(*                                                                         *)
(* Python values are records [t |-> type name, v |-> integer]: None is     *)
(* [t |-> "NoneType", v |-> 0], a bool is [t |-> "bool", v |-> 0 or 1]     *)
(* (bool is a subclass of int, so it compares as 0/1), an int is           *)
(* [t |-> "int", v |-> n].  Lists of bytes are sequences of 0..255.        *)
(***************************************************************************)
EXTENDS Integers, Sequences, FiniteSets, TLC

VARIABLES
    power,        \* Litra.__power
    brightness,   \* Litra.__brightness
    temperature,  \* Litra.__temperature
    loop,         \* position of test_inputs: "idle" (not called), "read",
                  \* "process", or "raised" (left by an uncaught exception)
    result,       \* the local `result` of test_inputs: the last buffer read
    op,           \* the operation that ran last
    value,        \* the value that operation handed to a setter: the
                  \* caller's argument, or the local `value` of
                  \* process_result; None when it handed none
    outcome,      \* how it ended: "returned", "invalid list" (the early
                  \* return of process_result), or the exception raised
    command,      \* litra_command: its `command` argument
    cvalue,       \* litra_command: its `value` argument (see IntOf)
    epc,          \* litra_command: "call" before the call, "done" after
    output,       \* litra_command: what the call produced
    usb,          \* the usb.core.Device objects: for each, whether a kernel
                  \* driver is active on interface 0 and whether
                  \* set_configuration was applied
    dev,          \* the module global `dev`, bound by the module-level for
    sess,         \* the Litra objects (sessions)
    poller,       \* the session whose test_inputs is running, or "none"
    cancel,       \* the cancellation request to the running test_inputs
    sop,          \* the session operation that ran last
    io            \* the transport calls that operation made, in order

vars == <<power, brightness, temperature, loop, result, value, op, outcome,
          command, cvalue, epc, output, usb, dev, sess, poller, cancel, sop,
          io>>

state_vars == <<power, brightness, temperature>>
encoder_vars == <<command, cvalue, epc, output>>
object_vars == <<power, brightness, temperature, loop, result, value, op,
                 outcome>>
session_vars == <<usb, dev, sess, poller, cancel, sop, io>>

----------------------------------------------------------------------------
(* Bounds of the model *)

\* Longest inbound buffer the model reads (the device sends 64 or 32 bytes,
\* of which only the first six are interpreted); shorter reads are included.
MaxReportLen == 7

\* Largest value handed to litra_command as a plain integer (the protocol's
\* values fit in two bytes).
MaxValue == 65535

\* Larger values are mant * 256^shift with shift up to MaxShift, which is
\* enough for a value that needs 17 bytes.
MaxShift == 16

\* Most explicit teardown_device calls on one session (its finalizer makes
\* one more).
MaxTeardown == 1

----------------------------------------------------------------------------
(* Python values *)

None == [t |-> "NoneType", v |-> 0]
PyBool(b) == [t |-> "bool", v |-> IF b THEN 1 ELSE 0]
PyInt(n) == [t |-> "int", v |-> n]
PyTrue == PyBool(TRUE)
PyFalse == PyBool(FALSE)

\* isinstance(value, bool)
IsBool(x) == x.t = "bool"
\* isinstance(value, int): bool is a subclass of int
IsInt(x) == x.t \in {"int", "bool"}

Min(a, b) == IF a < b THEN a ELSE b

\* Python slice s[a:b] of a list, 0 <= a
Slice(s, a, b) == SubSeq(s, a + 1, Min(b, Len(s)))
\* Python slice s[a:]
SliceFrom(s, a) == SubSeq(s, a + 1, Len(s))

----------------------------------------------------------------------------
(* Module constants *)

LITRA_COMMAND_BUFFER_PREFIX == <<17, 255, 4>>

INPUT_CODES == [c \in {0, 16, 32} |->
                  CASE c = 0 -> "power"
                    [] c = 16 -> "brightness"
                    [] c = 32 -> "temperature"]

----------------------------------------------------------------------------
(* Command encoding.  A Python int of any size is the record               *)
(* [mant |-> m, shift |-> k], standing for the integer m * 256^k.          *)

BigInt(m, k) == [mant |-> m, shift |-> k]

LITRA_COMMAND_BUFFER_LENGTH == 20

\* Variant: the codes of power_get and power exchanged.
LITRA_COMMANDS_swapped ==
    [c \in {"power_get", "power", "brightness", "temperature"}
       |-> CASE c = "power_get" -> 28
             [] c = "power" -> 27
             [] c = "brightness" -> 76
             [] c = "temperature" -> 156]

LITRA_COMMANDS == [c \in {"power_get", "power", "brightness", "temperature"}
                    |-> CASE c = "power_get" -> 27
                          [] c = "power" -> 28
                          [] c = "brightness" -> 76
                          [] c = "temperature" -> 156]

\* int.bit_length() of a plain integer (the sign is ignored)
RECURSIVE NatBitLength(_)
NatBitLength(n) == IF n = 0 THEN 0 ELSE 1 + NatBitLength(n \div 2)

Abs(n) == IF n < 0 THEN -n ELSE n

\* value.bit_length()
bit_length(x) ==
    IF x.mant = 0 THEN 0 ELSE NatBitLength(Abs(x.mant)) + 8 * x.shift

\* math.ceil(bits / 8)
ceil_div8(bits) == (bits + 7) \div 8

\* Variant: byteorder "little".
RECURSIVE NatToBytes_little(_, _)
NatToBytes_little(m, n) ==
    IF n = 0 THEN <<>>
    ELSE <<m % 256>> \o NatToBytes_little(m \div 256, n - 1)

\* the big-endian bytes of the plain integer m, in exactly n bytes
RECURSIVE NatToBytes(_, _)
NatToBytes(m, n) ==
    IF n = 0 THEN <<>> ELSE Append(NatToBytes(m \div 256, n - 1), m % 256)

RECURSIVE FitsIn(_, _)
FitsIn(m, n) == IF n = 0 THEN m = 0 ELSE FitsIn(m \div 256, n - 1)

Zeros(n) == IF n <= 0 THEN <<>> ELSE [i \in 1..n |-> 0]

\* value.to_bytes(length=n) with the default byteorder "big"
to_bytes(x, n) ==
    IF x.mant < 0 THEN [exc |-> "OverflowError", bytes |-> <<>>]
    ELSE IF x.mant = 0 THEN [exc |-> "none", bytes |-> Zeros(n)]
    ELSE IF n < x.shift \/ ~FitsIn(x.mant, n - x.shift)
         THEN [exc |-> "OverflowError", bytes |-> <<>>]
    ELSE [exc |-> "none",
          bytes |-> NatToBytes(x.mant, n - x.shift) \o Zeros(x.shift)]

\* [0x00] * n: the empty list when n is negative
Repeat0(n) == Zeros(n)

litra_command(cmd, val) ==
    IF cmd \notin DOMAIN LITRA_COMMANDS
    THEN [exc |-> "KeyError", buf |-> <<>>]
    ELSE LET command_code == LITRA_COMMANDS[cmd]
             value_len == ceil_div8(bit_length(val))
             value_bytes == to_bytes(val, value_len)
         IN IF value_bytes.exc # "none"
            THEN [exc |-> value_bytes.exc, buf |-> <<>>]
            ELSE LET out == LITRA_COMMAND_BUFFER_PREFIX \o <<command_code>>
                              \o value_bytes.bytes
                     buffered_output ==
                         out \o Repeat0(LITRA_COMMAND_BUFFER_LENGTH - Len(out))
                 IN [exc |-> "none", buf |-> buffered_output]

----------------------------------------------------------------------------
(* Report decoding *)

\* Variant: byteorder "little".
RECURSIVE int_from_bytes_little(_)
int_from_bytes_little(bs) ==
    IF bs = <<>> THEN 0
    ELSE bs[1] + 256 * int_from_bytes_little(Tail(bs))

\* int.from_bytes(list) with the default byteorder "big"
RECURSIVE int_from_bytes(_)
int_from_bytes(bs) ==
    IF bs = <<>> THEN 0
    ELSE 256 * int_from_bytes(SubSeq(bs, 1, Len(bs) - 1)) + bs[Len(bs)]

\* A validator's result: the value it returns, or the exception it raises.
Returns(x) == [exc |-> "none", val |-> x]
Raises(e) == [exc |-> e, val |-> None]

\* Variant: any non-zero byte is taken as True.
__validate_power_lenient(input_data) ==
    IF input_data = <<>> THEN Raises("IndexError")
    ELSE Returns(PyBool(input_data[1] # 0))

__validate_power(input_data) ==
    IF input_data = <<>> THEN Raises("IndexError")
    ELSE LET input_value == input_data[1]
         IN IF input_value \notin {0, 1} THEN Raises("RuntimeError")
            ELSE Returns(PyBool(input_value # 0))

__validate_brightness(input_data) ==
    LET input_value == Slice(input_data, 0, 2)
    IN Returns(PyInt(int_from_bytes(input_value)))

__validate_temperature(input_data) ==
    LET input_value == Slice(input_data, 0, 2)
    IN Returns(PyInt(int_from_bytes(input_value)))

INPUT_VALIDATION(input_code, input_data) ==
    CASE input_code = 0 -> __validate_power(input_data)
      [] input_code = 16 -> __validate_brightness(input_data)
      [] input_code = 32 -> __validate_temperature(input_data)

----------------------------------------------------------------------------
(* The Litra object: its three private fields and their setters.  A setter *)
(* maps the fields before the call to the fields after it and the outcome. *)

Fields == [power |-> power, brightness |-> brightness,
           temperature |-> temperature]

Done(self, how) == [self |-> self, outcome |-> how]

power_setter(self, v) ==
    IF ~IsBool(v) THEN Done(self, "ValueError")
    ELSE Done([self EXCEPT !.power = v], "returned")

\* Variant: the lower bound off by one.
brightness_setter_wide(self, v) ==
    IF ~IsInt(v) THEN Done(self, "returned")
    ELSE IF ~(19 <= v.v /\ v.v <= 250) THEN Done(self, "returned")
    ELSE Done([self EXCEPT !.brightness = v], "returned")

\* Variant: the upper bound exclusive.
brightness_setter_strict(self, v) ==
    IF ~IsInt(v) THEN Done(self, "returned")
    ELSE IF ~(20 <= v.v /\ v.v < 250) THEN Done(self, "returned")
    ELSE Done([self EXCEPT !.brightness = v], "returned")

brightness_setter(self, v) ==
    IF ~IsInt(v) THEN Done(self, "returned")
    ELSE IF ~(20 <= v.v /\ v.v <= 250) THEN Done(self, "returned")
    ELSE Done([self EXCEPT !.brightness = v], "returned")

\* Variant: an out-of-range value is ignored as the brightness setter does.
temperature_setter_soft(self, v) ==
    IF ~IsInt(v) THEN Done(self, "TypeError")
    ELSE IF ~(2700 <= v.v /\ v.v <= 6500) THEN Done(self, "returned")
    ELSE Done([self EXCEPT !.temperature = v], "returned")

\* Variant: the assignment copied from the brightness setter.
temperature_setter_copied(self, v) ==
    IF ~IsInt(v) THEN Done(self, "TypeError")
    ELSE IF ~(2700 <= v.v /\ v.v <= 6500) THEN Done(self, "ValueError")
    ELSE Done([self EXCEPT !.brightness = v], "returned")

\* `2700 <= value` is a TypeError for None, the one non-number modelled
temperature_setter(self, v) ==
    IF ~IsInt(v) THEN Done(self, "TypeError")
    ELSE IF ~(2700 <= v.v /\ v.v <= 6500) THEN Done(self, "ValueError")
    ELSE Done([self EXCEPT !.temperature = v], "returned")

\* setattr(self, attr_name, value)
setattr(self, attr_name, v) ==
    CASE attr_name = "power" -> power_setter(self, v)
      [] attr_name = "brightness" -> brightness_setter(self, v)
      [] attr_name = "temperature" -> temperature_setter(self, v)

\* Variant: an unknown input code is skipped without an error.
process_result_skipping(self, res) ==
    LET sliced == SliceFrom(res, 3)
    IN IF sliced = <<>>
       THEN [self |-> self, outcome |-> "IndexError", value |-> None]
       ELSE IF Head(sliced) \notin DOMAIN INPUT_CODES
       THEN [self |-> self, outcome |-> "returned", value |-> None]
       ELSE LET decoded == INPUT_VALIDATION(Head(sliced), Tail(sliced))
            IN IF decoded.exc # "none"
               THEN [self |-> self, outcome |-> decoded.exc, value |-> None]
               ELSE LET set == setattr(self, INPUT_CODES[Head(sliced)],
                                       decoded.val)
                    IN [self |-> set.self, outcome |-> set.outcome,
                        value |-> decoded.val]

\* Litra.process_result: the fields after the call, the outcome and the
\* decoded `value` (None when the call ends before `value` is bound).
process_result(self, res) ==
    LET result_list == res
    IN IF ~(Slice(result_list, 0, 2) # <<17, 255, 4>>)
       THEN [self |-> self, outcome |-> "invalid list", value |-> None]
       ELSE LET sliced == SliceFrom(result_list, 3)
            IN IF sliced = <<>>
               THEN [self |-> self, outcome |-> "IndexError", value |-> None]
               ELSE LET input_code == Head(sliced)
                        input_data == Tail(sliced)
                    IN IF input_code \notin DOMAIN INPUT_CODES
                       THEN [self |-> self, outcome |-> "KeyError",
                             value |-> None]
                       ELSE LET attr_name == INPUT_CODES[input_code]
                                decoded == INPUT_VALIDATION(input_code,
                                                            input_data)
                            IN IF decoded.exc # "none"
                               THEN [self |-> self, outcome |-> decoded.exc,
                                     value |-> None]
                               ELSE LET set == setattr(self, attr_name,
                                                       decoded.val)
                                    IN [self |-> set.self,
                                        outcome |-> set.outcome,
                                        value |-> decoded.val]

----------------------------------------------------------------------------
(* Sessions: Litra objects over usb.core.Device transports *)

LOGITECH_VENDOR_ID == 1133 (* 0x046d *)

TIMEOUT_MS == 3000

\* Variant: the endpoints of the two products exchanged.
LITRA_PRODUCTS_swapped ==
    [p \in {51456, 51457} |->
        IF p = 51456
        THEN [name |-> "Glow", endpoint |-> 1, buffer_length |-> 64]
        ELSE [name |-> "Beam", endpoint |-> 2, buffer_length |-> 32]]

\* 0xc900 and 0xc901
LITRA_PRODUCTS ==
    [p \in {51456, 51457} |->
        IF p = 51456
        THEN [name |-> "Glow", endpoint |-> 2, buffer_length |-> 64]
        ELSE [name |-> "Beam", endpoint |-> 1, buffer_length |-> 32]]

\* The usb.core.Device objects a Litra can be built on: two Glows (the
\* devices the module-level usb.core.find yields), a Beam, a Logitech device
\* of another product (0xc902) and a Glow-numbered device of another vendor.
DevIds == {"glow1", "glow2", "beam", "prodX", "vendX"}

Descriptor(d) ==
    CASE d \in {"glow1", "glow2"} -> [idVendor |-> 1133, idProduct |-> 51456]
      [] d = "beam" -> [idVendor |-> 1133, idProduct |-> 51457]
      [] d = "prodX" -> [idVendor |-> 1133, idProduct |-> 51458]
      [] d = "vendX" -> [idVendor |-> 1134, idProduct |-> 51456]

\* One call on a usb.core.Device (or of usb.util on it): the device, the
\* method, its endpoint, data, size and timeout arguments (0 or <<>> when
\* it has none), and what it returned: "ok", "True", "False" or "USBError".
Call(d, name, ep, data, size, timeout, ret) ==
    [dev |-> d, call |-> name, ep |-> ep, data |-> data, size |-> size,
     timeout |-> timeout, ret |-> ret]

\* A Litra object: st is "none" before __init__, "failed" when __init__
\* raised, "active" after it, "finalized" after __del__.  released,
\* attached and misattached count the object's dispose_resources calls and
\* its attach_kernel_driver calls on its own and on another device.
NoSession ==
    [st |-> "none", device |-> "none", idVendor |-> 0, idProduct |-> 0,
     reattach |-> FALSE, endpoint |-> 0, buffer_length |-> 0,
     power |-> None, brightness |-> None, temperature |-> None,
     released |-> 0, attached |-> 0, misattached |-> 0]

get_params(self) ==
    [endpoint |-> LITRA_PRODUCTS[self.idProduct].endpoint,
     buffer_length |-> LITRA_PRODUCTS[self.idProduct].buffer_length]

\* Litra.setup_device: set_configuration is inside the `if`
setup_device(self, u) ==
    LET d == self.device
        active == u[d].driver
        query == Call(d, "is_kernel_driver_active", 0, <<>>, 0, 0,
                      IF active THEN "True" ELSE "False")
    IN IF active
       THEN [self |-> [self EXCEPT !.reattach = TRUE],
             usb |-> [u EXCEPT ![d] = [driver |-> FALSE,
                                       configured |-> TRUE]],
             io |-> <<query,
                      Call(d, "detach_kernel_driver", 0, <<>>, 0, 0, "ok"),
                      Call(d, "set_configuration", 0, <<>>, 0, 0, "ok")>>]
       ELSE [self |-> self, usb |-> u, io |-> <<query>>]

\* Litra.__init__(usb_device)
__init__(usb_device, u) ==
    IF Descriptor(usb_device).idVendor # LOGITECH_VENDOR_ID
    THEN [self |-> [NoSession EXCEPT !.st = "failed"], usb |-> u,
          io |-> <<>>, outcome |-> "RuntimeError"]
    ELSE IF Descriptor(usb_device).idProduct \notin DOMAIN LITRA_PRODUCTS
    THEN [self |-> [NoSession EXCEPT !.st = "failed"], usb |-> u,
          io |-> <<>>, outcome |-> "RuntimeError"]
    ELSE LET stored == [NoSession EXCEPT
                          !.device = usb_device,
                          !.idVendor = Descriptor(usb_device).idVendor,
                          !.idProduct = Descriptor(usb_device).idProduct,
                          !.reattach = FALSE]
             params == get_params(stored)
             looked == [stored EXCEPT
                          !.endpoint = params.endpoint,
                          !.buffer_length = params.buffer_length]
             setup == setup_device(looked, u)
         IN [self |-> [setup.self EXCEPT
                          !.st = "active", !.power = None,
                          !.temperature = None, !.brightness = None],
             usb |-> setup.usb, io |-> setup.io, outcome |-> "returned"]

\* Litra.teardown_device: dispose_resources(self.device), then the attach
\* on the module global `dev` (g).  attach_kernel_driver fails (USBError)
\* on a device whose kernel driver is active.
teardown_device(self, g, u) ==
    LET dispose == Call(self.device, "dispose_resources", 0, <<>>, 0, 0,
                        "ok")
        disposed == [self EXCEPT !.released = @ + 1]
    IN IF ~self.reattach
       THEN [self |-> disposed, usb |-> u, io |-> <<dispose>>,
             outcome |-> "returned"]
       ELSE LET ok == ~u[g].driver
                attach == Call(g, "attach_kernel_driver", 0, <<>>, 0, 0,
                               IF ok THEN "ok" ELSE "USBError")
            IN [self |-> IF g = self.device
                         THEN [disposed EXCEPT !.attached = @ + 1]
                         ELSE [disposed EXCEPT !.misattached = @ + 1],
                usb |-> IF ok THEN [u EXCEPT ![g].driver = TRUE] ELSE u,
                io |-> <<dispose, attach>>,
                outcome |-> IF ok THEN "returned" ELSE "USBError"]

\* Litra.__del__: teardown_device(); an object whose __init__ raised has no
\* `device` attribute, and the AttributeError is dropped by the finalizer.
__del__(self, g, u) ==
    IF self.st = "failed"
    THEN [self |-> [self EXCEPT !.st = "finalized"], usb |-> u,
          io |-> <<>>, outcome |-> "AttributeError"]
    ELSE LET torn == teardown_device(self, g, u)
         IN [torn EXCEPT !.self.st = "finalized"]

\* Variant: the acknowledgement is read before the command is written.
on_read_first(self, g, wok, rok) ==
    LET cmd == litra_command("power", BigInt(1, 0)).buf
        write == Call(g, "write", self.endpoint, cmd, 0, TIMEOUT_MS,
                      IF wok THEN "ok" ELSE "USBError")
        read == Call(g, "read", self.endpoint, <<>>, self.buffer_length, 0,
                     IF rok THEN "ok" ELSE "USBError")
    IN IF ~rok THEN [io |-> <<read>>, outcome |-> "USBError"]
       ELSE [io |-> <<read, write>>,
             outcome |-> IF wok THEN "returned" ELSE "USBError"]

\* Litra.on: the write and the read go to the module global `dev` (g); wok
\* and rok tell whether the transport lets the write and the read succeed.
on(self, g, wok, rok) ==
    LET cmd == litra_command("power", BigInt(1, 0)).buf
        write == Call(g, "write", self.endpoint, cmd, 0, TIMEOUT_MS,
                      IF wok THEN "ok" ELSE "USBError")
        read == Call(g, "read", self.endpoint, <<>>, self.buffer_length, 0,
                     IF rok THEN "ok" ELSE "USBError")
    IN IF ~wok THEN [io |-> <<write>>, outcome |-> "USBError"]
       ELSE [io |-> <<write, read>>,
             outcome |-> IF rok THEN "returned" ELSE "USBError"]

\* Litra.off
off(self, g, wok, rok) ==
    LET cmd == litra_command("power", BigInt(0, 0)).buf
        write == Call(g, "write", self.endpoint, cmd, 0, TIMEOUT_MS,
                      IF wok THEN "ok" ELSE "USBError")
        read == Call(g, "read", self.endpoint, <<>>, self.buffer_length, 0,
                     IF rok THEN "ok" ELSE "USBError")
    IN IF ~wok THEN [io |-> <<write>>, outcome |-> "USBError"]
       ELSE [io |-> <<write, read>>,
             outcome |-> IF rok THEN "returned" ELSE "USBError"]

----------------------------------------------------------------------------
(* Inputs *)

\* Arguments handed to the setters: None, both booleans, and integers on
\* and around every boundary the setters test.
SetterArgs ==
    {None, PyTrue, PyFalse}
    \cup {PyInt(n) : n \in {-1, 0, 1, 19, 20, 250, 251,
                            2699, 2700, 6500, 6501, 65535}}

\* Inbound buffers: a 3-byte header (the valid one, one with a wrong third
\* byte and one with a wrong first byte), a field code (the three known ones and an unknown one), two
\* payload bytes on and around the boundaries, and padding; every prefix of
\* such a buffer, the empty one included, is a possible short read.
HeaderSamples == {<<17, 255, 4>>, <<17, 255, 5>>, <<16, 255, 4>>}
CodeSamples == {0, 16, 32, 1}
PayloadSamples == {<<0, 0>>, <<1, 0>>, <<2, 0>>,
                   <<0, 19>>, <<0, 20>>, <<0, 250>>, <<0, 251>>,
                   <<10, 139>>, <<10, 140>>, <<25, 100>>, <<25, 101>>}
PadSamples == {0, 9}

FullReports ==
    {h \o <<c>> \o p \o [i \in 1..(MaxReportLen - 6) |-> b] :
        h \in HeaderSamples, c \in CodeSamples, p \in PayloadSamples,
        b \in PadSamples}

Reports == {SubSeq(r, 1, n) : r \in FullReports, n \in 0..MaxReportLen}

\* Arguments of litra_command: every value up to MaxValue, a negative one,
\* and large values m * 256^k.
CommandSamples == DOMAIN LITRA_COMMANDS \cup {"bogus"}
ValueSamples ==
    {BigInt(m, 0) : m \in -1..MaxValue}
    \cup {BigInt(m, k) : m \in {1, 255, 256}, k \in 1..MaxShift}

\* Sessions, and the few setter arguments and inbound buffers used on
\* them: a power, a brightness and an unknown-field report.
Sessions == {"s1", "s2"}
SessionArgs == {PyInt(n) : n \in {19, 250, 2700, 6501}}
SessionReports == {<<17, 255, 4, 0, 1, 0>>, <<17, 255, 4, 16, 0, 250>>,
                   <<17, 255, 4, 1, 0, 0>>}

----------------------------------------------------------------------------
(* Initial state: the object right after Litra.__init__ *)

InitObject ==
    /\ power = None
    /\ temperature = None
    /\ brightness = None
    /\ loop = "idle"
    /\ result = <<>>
    /\ value = None
    /\ op = "__init__"
    /\ outcome = "returned"

NoOutput == [exc |-> "none", buf |-> <<>>]

\* Before any Litra is built: the module-level loop has bound `dev` to the
\* first device found.
NoOp == [name |-> "none", s |-> "none", device |-> "none", arg |-> None,
         outcome |-> "returned"]

InitNoSessions ==
    /\ dev = "glow1"
    /\ sess = [s \in Sessions |-> NoSession]
    /\ poller = "none"
    /\ cancel = "no"
    /\ sop = NoOp
    /\ io = <<>>

\* No call of litra_command is made by the object's operations modelled
\* here: the encoder's variables stay as they start.
InitNoEncode ==
    /\ command = "power"
    /\ cvalue = BigInt(1, 0)
    /\ epc = "call"
    /\ output = NoOutput

Init ==
    /\ InitObject
    /\ InitNoEncode
    /\ InitNoSessions
    /\ usb = [d \in DevIds |-> [driver |-> TRUE, configured |-> FALSE]]

----------------------------------------------------------------------------
(* Operations of the object.  The caller's own setter calls happen before  *)
(* test_inputs is called: test_inputs never returns, and one thread of     *)
(* control drives the object.                                              *)

Apply(after, name, arg) ==
    /\ power' = after.self.power
    /\ brightness' = after.self.brightness
    /\ temperature' = after.self.temperature
    /\ value' = arg
    /\ op' = name
    /\ outcome' = after.outcome

SetPower ==
    /\ loop = "idle"
    /\ \E v \in SetterArgs : Apply(power_setter(Fields, v), "power", v)
    /\ UNCHANGED <<loop, result, encoder_vars, session_vars>>

SetBrightness ==
    /\ loop = "idle"
    /\ \E v \in SetterArgs :
          Apply(brightness_setter(Fields, v), "brightness", v)
    /\ UNCHANGED <<loop, result, encoder_vars, session_vars>>

SetTemperature ==
    /\ loop = "idle"
    /\ \E v \in SetterArgs :
          Apply(temperature_setter(Fields, v), "temperature", v)
    /\ UNCHANGED <<loop, result, encoder_vars, session_vars>>

\* test_inputs is called and enters `while True`
TestInputsStart ==
    /\ loop = "idle"
    /\ loop' = "read"
    /\ op' = "test_inputs"
    /\ outcome' = "returned"
    /\ value' = None
    /\ UNCHANGED <<state_vars, result, encoder_vars, session_vars>>

\* self.device.read times out: USBTimeoutError is caught, the loop goes on
TestInputsTimeout ==
    /\ loop = "read"
    /\ loop' = "read"
    /\ op' = "read"
    /\ outcome' = "USBTimeoutError"
    /\ value' = None
    /\ UNCHANGED <<state_vars, result, encoder_vars, session_vars>>

\* self.device.read returns a buffer
TestInputsRead ==
    /\ loop = "read"
    /\ \E r \in Reports : result' = r
    /\ loop' = "process"
    /\ op' = "read"
    /\ outcome' = "returned"
    /\ value' = None
    /\ UNCHANGED <<state_vars, encoder_vars, session_vars>>

\* self.process_result(result); time.sleep(0.1).  Only USBTimeoutError is
\* caught: any other exception of process_result propagates out of
\* test_inputs and, uncaught at module level, ends the program.
TestInputsProcess ==
    /\ loop = "process"
    /\ LET after == process_result(Fields, result)
       IN /\ Apply(after, "process_result", after.value)
          /\ loop' = IF after.outcome \in {"returned", "invalid list"}
                     THEN "read" ELSE "raised"
    /\ UNCHANGED <<result, encoder_vars, session_vars>>

Next ==
    \/ SetPower
    \/ SetBrightness
    \/ SetTemperature
    \/ TestInputsStart
    \/ TestInputsTimeout
    \/ TestInputsRead
    \/ TestInputsProcess

Spec == Init /\ [][Next]_vars

----------------------------------------------------------------------------
(* The encoder on its own: one call of litra_command per behaviour *)

InitEncode ==
    /\ InitObject
    /\ InitNoSessions
    /\ usb = [d \in DevIds |-> [driver |-> TRUE, configured |-> FALSE]]
    /\ command \in CommandSamples
    /\ cvalue \in ValueSamples
    /\ epc = "call"
    /\ output = NoOutput

Encode ==
    /\ epc = "call"
    /\ output' = litra_command(command, cvalue)
    /\ epc' = "done"
    /\ UNCHANGED <<object_vars, command, cvalue, session_vars>>

NextEncode == Encode

SpecEncode == InitEncode /\ [][NextEncode]_vars

----------------------------------------------------------------------------
(* Sessions over their transports.  One thread of control drives a         *)
(* session: while its test_inputs runs, no other operation of that session *)
(* does, and the model lets one session poll at a time.                    *)

InitSession ==
    /\ InitObject
    /\ InitNoEncode
    /\ InitNoSessions
    /\ usb \in [DevIds -> [driver : BOOLEAN, configured : {FALSE}]]
    /\ \A d \in {"prodX", "vendX"} : usb[d].driver

FieldsOf(self) == [power |-> self.power, brightness |-> self.brightness,
                   temperature |-> self.temperature]

WithFields(self, f) == [self EXCEPT !.power = f.power,
                                    !.brightness = f.brightness,
                                    !.temperature = f.temperature]

Ran(name, s, arg, how) ==
    sop' = [name |-> name, s |-> s, device |-> "none", arg |-> arg,
            outcome |-> how]

\* the module-level `for dev in usb.core.find(...)` binds the next device
ForNext ==
    /\ dev = "glow1"
    /\ dev' = "glow2"
    /\ Ran("for", "none", None, "returned")
    /\ io' = <<>>
    /\ UNCHANGED <<object_vars, encoder_vars, usb, sess, poller, cancel>>

\* Litra(usb_device), for a device of D
Construct(s, D) ==
    /\ sess[s].st = "none"
    /\ \E d \in D :
          LET made == __init__(d, usb)
          IN /\ sess' = [sess EXCEPT ![s] = made.self]
             /\ usb' = made.usb
             /\ io' = made.io
             /\ sop' = [name |-> "__init__", s |-> s, device |-> d,
                        arg |-> None, outcome |-> made.outcome]
    /\ UNCHANGED <<object_vars, encoder_vars, dev, poller, cancel>>

\* an explicit call of teardown_device
TeardownDevice(s) ==
    /\ sess[s].st = "active"
    /\ poller # s
    /\ sess[s].released < MaxTeardown
    /\ LET torn == teardown_device(sess[s], dev, usb)
       IN /\ sess' = [sess EXCEPT ![s] = torn.self]
          /\ usb' = torn.usb
          /\ io' = torn.io
          /\ Ran("teardown_device", s, None, torn.outcome)
    /\ UNCHANGED <<object_vars, encoder_vars, dev, poller, cancel>>

\* the object is finalized: __del__
Finalize(s) ==
    /\ sess[s].st \in {"active", "failed"}
    /\ poller # s
    /\ LET gone == __del__(sess[s], dev, usb)
       IN /\ sess' = [sess EXCEPT ![s] = gone.self]
          /\ usb' = gone.usb
          /\ io' = gone.io
          /\ Ran("__del__", s, None, gone.outcome)
    /\ UNCHANGED <<object_vars, encoder_vars, dev, poller, cancel>>

On(s) ==
    /\ sess[s].st = "active"
    /\ poller # s
    /\ \E wok \in BOOLEAN, rok \in BOOLEAN :
          LET did == on(sess[s], dev, wok, rok)
          IN io' = did.io /\ Ran("on", s, None, did.outcome)
    /\ UNCHANGED <<object_vars, encoder_vars, usb, dev, sess, poller,
                   cancel>>

Off(s) ==
    /\ sess[s].st = "active"
    /\ poller # s
    /\ \E wok \in BOOLEAN, rok \in BOOLEAN :
          LET did == off(sess[s], dev, wok, rok)
          IN io' = did.io /\ Ran("off", s, None, did.outcome)
    /\ UNCHANGED <<object_vars, encoder_vars, usb, dev, sess, poller,
                   cancel>>

\* session.brightness = v: the setter makes no transport call
SessionSetBrightness(s) ==
    /\ sess[s].st = "active"
    /\ poller # s
    /\ \E v \in SessionArgs :
          LET after == brightness_setter(FieldsOf(sess[s]), v)
          IN /\ sess' = [sess EXCEPT ![s] = WithFields(@, after.self)]
             /\ Ran("brightness", s, v, after.outcome)
    /\ io' = <<>>
    /\ UNCHANGED <<object_vars, encoder_vars, usb, dev, poller, cancel>>

\* session.temperature = v: the setter makes no transport call
SessionSetTemperature(s) ==
    /\ sess[s].st = "active"
    /\ poller # s
    /\ \E v \in SessionArgs :
          LET after == temperature_setter(FieldsOf(sess[s]), v)
          IN /\ sess' = [sess EXCEPT ![s] = WithFields(@, after.self)]
             /\ Ran("temperature", s, v, after.outcome)
    /\ io' = <<>>
    /\ UNCHANGED <<object_vars, encoder_vars, usb, dev, poller, cancel>>

\* the address of the interrupt-in endpoint test_inputs takes from the
\* device's descriptor (dev[0][(0,0)][0].bEndpointAddress); 0x81 stands
\* for it
InEndpointAddress == 129

\* session.test_inputs(dev) is called and enters `while True`
SessionTestInputs(s) ==
    /\ sess[s].st = "active"
    /\ poller = "none"
    /\ poller' = s
    /\ cancel' = "no"
    /\ io' = <<>>
    /\ Ran("test_inputs", s, None, "returned")
    /\ UNCHANGED <<object_vars, encoder_vars, usb, dev, sess>>

\* The loop has no test of any cancellation request: a poll counts the
\* reads made since the request ("raised", "poll1", "poll2").
Polled(c) ==
    CASE c = "no" -> "no"
      [] c = "raised" -> "poll1"
      [] OTHER -> "poll2"

\* one round of the loop in which self.device.read times out
SessionPollTimeout ==
    /\ poller # "none"
    /\ cancel # "poll2"
    /\ cancel' = Polled(cancel)
    /\ io' = <<Call(sess[poller].device, "read", InEndpointAddress, <<>>,
                    64, 100, "USBTimeoutError")>>
    /\ Ran("poll", poller, None, "USBTimeoutError")
    /\ UNCHANGED <<object_vars, encoder_vars, usb, dev, sess, poller>>

\* one round of the loop in which a buffer of R is read and processed; an
\* exception of process_result leaves test_inputs
SessionPollReport(R) ==
    /\ poller # "none"
    /\ cancel # "poll2"
    /\ \E r \in R :
          LET after == process_result(FieldsOf(sess[poller]), r)
              goes_on == after.outcome \in {"returned", "invalid list"}
          IN /\ sess' = [sess EXCEPT ![poller] = WithFields(@, after.self)]
             /\ Ran("poll", poller, after.value, after.outcome)
             /\ poller' = IF goes_on THEN poller ELSE "none"
             /\ cancel' = IF goes_on THEN Polled(cancel) ELSE "no"
    /\ io' = <<Call(sess[poller].device, "read", InEndpointAddress, <<>>,
                    64, 100, "ok")>>
    /\ UNCHANGED <<object_vars, encoder_vars, usb, dev>>

\* a cancellation of the running test_inputs is requested from outside
Cancel ==
    /\ poller # "none"
    /\ cancel = "no"
    /\ cancel' = "raised"
    /\ io' = <<>>
    /\ Ran("cancel", poller, None, "returned")
    /\ UNCHANGED <<object_vars, encoder_vars, usb, dev, sess, poller>>

\* One session, built on any device, through its whole life.
NextSession ==
    \/ ForNext
    \/ Construct("s1", DevIds)
    \/ TeardownDevice("s1")
    \/ Finalize("s1")
    \/ On("s1")
    \/ Off("s1")
    \/ SessionSetBrightness("s1")
    \/ SessionSetTemperature("s1")
    \/ SessionTestInputs("s1")
    \/ SessionPollTimeout
    \/ SessionPollReport(SessionReports)
    \/ Cancel

SpecSession == InitSession /\ [][NextSession]_vars

\* Two sessions side by side: s1 on the first Glow or on the Beam, s2 on
\* the second Glow.
NextPair ==
    \/ ForNext
    \/ Construct("s1", {"glow1", "beam"})
    \/ Construct("s2", {"glow2"})
    \/ \E s \in Sessions : TeardownDevice(s)
    \/ \E s \in Sessions : Finalize(s)
    \/ \E s \in Sessions : On(s)
    \/ \E s \in Sessions : Off(s)
    \/ \E s \in Sessions : SessionTestInputs(s)
    \/ SessionPollTimeout
    \/ SessionPollReport({<<17, 255, 4, 16, 0, 250>>})

SpecPair == InitSession /\ [][NextPair]_vars

----------------------------------------------------------------------------
(* Properties *)

\* The report has at least 4 bytes and starts with 0x11 0xFF 0x04.
WellFormed(r) == Len(r) >= 4 /\ r[1] = 17 /\ r[2] = 255 /\ r[3] = 4
Malformed(r) == ~WellFormed(r)
\* Byte i of a report, counted from 0 as the protocol does.
Byte(r, i) == r[i + 1]
UnknownField(r) == WellFormed(r) /\ Byte(r, 3) \notin {0, 16, 32}

\* C1: processing a report shorter than 4 bytes, or whose first 3 bytes are
\* not 0x11 0xFF 0x04, ends in a rejection and leaves power, brightness and
\* temperature unchanged, whatever its field code and payload are.  The
\* rejection is the "invalid list" return; an exception is counted as one
\* too, so that only a report that is decoded and applied breaks this.
C1_MalformedRejected ==
    [][(loop = "process" /\ Malformed(result))
         => (outcome' # "returned" /\ UNCHANGED state_vars)]_vars

\* C2: in the polling loop a malformed report or a report with an unknown
\* field code never ends the loop: after processing it the loop reads again.
C2_BadReportKeepsLoop ==
    [][(loop = "process" /\ (Malformed(result) \/ UnknownField(result)))
         => loop' = "read"]_vars

\* C3: all three fields are unset right after construction, and in every
\* reachable state power is unset or a boolean, brightness is unset or an
\* integer in [20,250], temperature is unset or an integer in [2700,6500].
C3_StateInvariant ==
    /\ op = "__init__" =>
          (power = None /\ brightness = None /\ temperature = None)
    /\ power = None \/ power.t = "bool"
    /\ brightness = None
         \/ (brightness.t = "int" /\ 20 <= brightness.v
             /\ brightness.v <= 250)
    /\ temperature = None
         \/ (temperature.t = "int" /\ 2700 <= temperature.v
             /\ temperature.v <= 6500)

\* All three fields have been set, the last one by a processed report.
C3_Witness ==
    /\ op = "process_result"
    /\ power = PyTrue
    /\ brightness = PyInt(250)
    /\ temperature = PyInt(2700)

\* C4: for every integer v the brightness setter raises nothing; it sets
\* brightness to v exactly when 20 <= v <= 250 and otherwise leaves
\* brightness, power and temperature as they were.
C4_SetBrightness ==
    [][(op' = "brightness" /\ value'.t = "int")
         => /\ outcome' = "returned"
            /\ IF 20 <= value'.v /\ value'.v <= 250
               THEN brightness' = value' /\ UNCHANGED <<power, temperature>>
               ELSE UNCHANGED state_vars]_vars

\* The upper boundary 250 was accepted over an earlier value.
C4_Witness ==
    /\ op = "brightness"
    /\ value = PyInt(250)
    /\ brightness = PyInt(250)
    /\ power = PyFalse
    /\ temperature = PyInt(6500)

\* C5: for every integer v the temperature setter succeeds and sets
\* temperature to v exactly when 2700 <= v <= 6500; otherwise it raises the
\* hard error (ValueError) and leaves temperature, power and brightness as
\* they were.
C5_SetTemperature ==
    [][(op' = "temperature" /\ value'.t = "int")
         => IF 2700 <= value'.v /\ value'.v <= 6500
            THEN /\ outcome' = "returned"
                 /\ temperature' = value'
                 /\ UNCHANGED <<power, brightness>>
            ELSE /\ outcome' = "ValueError"
                 /\ UNCHANGED state_vars]_vars

\* 6501 was rejected with the hard error and the earlier 2700 kept.
C5_Witness ==
    /\ op = "temperature"
    /\ value = PyInt(6501)
    /\ outcome = "ValueError"
    /\ temperature = PyInt(2700)
    /\ brightness = PyInt(20)

\* The call of litra_command has returned for a known command and a value
\* the protocol uses (0..65535).
ProtocolCall ==
    /\ epc = "done"
    /\ command \in {"power_get", "power", "brightness", "temperature"}
    /\ cvalue.shift = 0
    /\ 0 <= cvalue.mant /\ cvalue.mant <= 65535

CodeOf(c) ==
    CASE c = "power_get" -> 27 (* 0x1B *)
      [] c = "power" -> 28 (* 0x1C *)
      [] c = "brightness" -> 76 (* 0x4C *)
      [] c = "temperature" -> 156 (* 0x9C *)

\* C6: for every command and every value in 0..65535 litra_command returns
\* a buffer of exactly 20 bytes whose bytes 0..2 are 0x11 0xFF 0x04 and
\* whose byte 3 is the command's code.
C6_EncodeHeader ==
    ProtocolCall =>
        /\ output.exc = "none"
        /\ Len(output.buf) = 20
        /\ SubSeq(output.buf, 1, 3) = <<17, 255, 4>>
        /\ Byte(output.buf, 3) = CodeOf(command)

C6_Witness ==
    /\ ProtocolCall
    /\ command = "temperature"
    /\ cvalue.mant = 6500
    /\ Len(output.buf) = 20
    /\ Byte(output.buf, 3) = 156

\* C7: for every value in 0..65535 the bytes from index 4 on are the value
\* in big-endian, one byte for 0..255 (0 as a single 0x00) and two bytes for
\* 256..65535, followed only by zero bytes up to index 19; and
\* litra_command('power', 1) is 0x11 0xFF 0x04 0x1C 0x01 and 15 zero bytes.
C7_EncodeValue ==
    ProtocolCall =>
        LET v == cvalue.mant
            n == IF v <= 255 THEN 1 ELSE 2
            enc == IF v <= 255 THEN <<v>> ELSE <<v \div 256, v % 256>>
        IN /\ Len(output.buf) = 20
           /\ SubSeq(output.buf, 5, 4 + n) = enc
           /\ \A i \in (4 + n)..19 : Byte(output.buf, i) = 0
           /\ (command = "power" /\ v = 1) =>
                 output.buf = <<17, 255, 4, 28, 1,
                                0, 0, 0, 0, 0, 0, 0, 0, 0, 0, 0, 0, 0, 0, 0>>

\* A two-byte value: 2700 = 0x0A8C.
C7_Witness ==
    /\ ProtocolCall
    /\ command = "temperature"
    /\ cvalue.mant = 2700
    /\ SubSeq(output.buf, 5, 7) = <<10, 140, 0>>

\* The number of bytes of the minimal big-endian encoding of a value > 0.
RECURSIVE NatByteLength(_)
NatByteLength(m) == IF m = 0 THEN 0 ELSE 1 + NatByteLength(m \div 256)
ByteLength(x) == IF x.mant = 0 THEN 0 ELSE NatByteLength(x.mant) + x.shift

\* C8: litra_command never returns a buffer whose length is not 20; when
\* the value needs more than 16 bytes it fails with an error instead.
C8_NeverOverlong ==
    (epc = "done" /\ command \in DOMAIN LITRA_COMMANDS /\ cvalue.mant >= 0)
        => /\ output.exc = "none" => Len(output.buf) = 20
           /\ ByteLength(cvalue) > 16 => output.exc # "none"

\* C9: for a report with the valid prefix and field code 16 or 32 the
\* decoded value is 256 * byte[4] + byte[5], whatever the padding is and
\* whether or not the value is in the field's range.
C9_DecodeBigEndian ==
    (/\ op = "process_result"
     /\ WellFormed(result)
     /\ Len(result) >= 6
     /\ Byte(result, 3) \in {16, 32})
        => value = PyInt(256 * Byte(result, 4) + Byte(result, 5))

\* 0x11 0xFF 0x04 16 0x00 0xFA with non-zero padding decoded to 250.
C9_Witness ==
    /\ op = "process_result"
    /\ Len(result) >= 7
    /\ SubSeq(result, 1, 7) = <<17, 255, 4, 16, 0, 250, 9>>
    /\ value = PyInt(250)
    /\ brightness = PyInt(250)

\* C10: for a report with the valid prefix and field code 0, payload byte 0
\* sets power to false and 1 sets it to true; any other first payload byte
\* fails (RuntimeError) and leaves power, brightness and temperature
\* unchanged.
C10_DecodePower ==
    [][(/\ loop = "process"
        /\ WellFormed(result)
        /\ Len(result) >= 5
        /\ Byte(result, 3) = 0)
         => IF Byte(result, 4) \in {0, 1}
            THEN /\ outcome' = "returned"
                 /\ power' = PyBool(Byte(result, 4) = 1)
            ELSE /\ outcome' = "RuntimeError"
                 /\ UNCHANGED state_vars]_vars

\* Payload byte 2 was refused and the earlier power value kept.
C10_Witness ==
    /\ op = "process_result"
    /\ Len(result) >= 5
    /\ SubSeq(result, 1, 4) = <<17, 255, 4, 0>>
    /\ Byte(result, 4) = 2
    /\ outcome = "RuntimeError"
    /\ power = PyTrue

\* C11: a report with the valid prefix whose field code is not 0, 16 or 32
\* is a decode error (KeyError): it is not taken for one of the known
\* fields and changes none of power, brightness, temperature.
C11_UnknownFieldIsError ==
    [][(loop = "process" /\ UnknownField(result))
         => (outcome' = "KeyError" /\ value' = None
             /\ UNCHANGED state_vars)]_vars

\* A report with field code 1 was refused with all three fields set before.
C11_Witness ==
    /\ op = "process_result"
    /\ UnknownField(result)
    /\ outcome = "KeyError"
    /\ power = PyTrue
    /\ brightness = PyInt(20)
    /\ temperature = PyInt(6500)

\* The field a report names by its field code, "none" when it names none.
NamedField(r) ==
    IF Len(r) < 4 THEN "none"
    ELSE CASE Byte(r, 3) = 0 -> "power"
           [] Byte(r, 3) = 16 -> "brightness"
           [] Byte(r, 3) = 32 -> "temperature"
           [] OTHER -> "none"

\* C19: processing one report changes at most the field named by its field
\* code; the other two keep their values, whether the value is accepted or
\* rejected.
C19_OneFieldPerReport ==
    [][loop = "process"
         => /\ power' # power => NamedField(result) = "power"
            /\ brightness' # brightness => NamedField(result) = "brightness"
            /\ temperature' # temperature
                 => NamedField(result) = "temperature"]_vars

\* A temperature report replaced 6500 by 2700 and left the others alone.
C19_Witness ==
    /\ op = "process_result"
    /\ NamedField(result) = "temperature"
    /\ value = PyInt(2700)
    /\ temperature = PyInt(2700)
    /\ power = PyFalse
    /\ brightness = PyInt(250)

\* The value a well-formed brightness or temperature report carries is out
\* of the field's range.
OutOfRange(r) ==
    /\ WellFormed(r)
    /\ Len(r) >= 6
    /\ LET v == 256 * Byte(r, 4) + Byte(r, 5)
       IN \/ Byte(r, 3) = 16 /\ ~(20 <= v /\ v <= 250)
          \/ Byte(r, 3) = 32 /\ ~(2700 <= v /\ v <= 6500)

\* C20: a well-formed report whose value is out of range for its field does
\* not end the polling loop: the value is rejected, the fields are
\* unchanged and the loop reads again.
C20_OutOfRangeKeepsLoop ==
    [][(loop = "process" /\ OutOfRange(result))
         => (loop' = "read" /\ UNCHANGED state_vars)]_vars

\* The methods called on the transport by the last session operation.
Calls == {io[i].call : i \in DOMAIN io}

\* C12: construction succeeds only for vendor 0x046D and product 0xC900 or
\* 0xC901; on success the session's endpoint and buffer length are the
\* catalog's (0xC900: 0x02 and 64, 0xC901: 0x01 and 32); for another vendor
\* or product it fails before any transport operation on the handle.
C12_ConstructionValidated ==
    sop.name = "__init__" =>
        LET d == Descriptor(sop.device)
            self == sess[sop.s]
            supported == d.idVendor = 1133 (* 0x046D *)
                         /\ d.idProduct \in {51456, 51457}
        IN /\ (sop.outcome = "returned") <=> supported
           /\ supported =>
                /\ self.device = sop.device
                /\ d.idProduct = 51456 (* 0xC900 *) =>
                      (self.endpoint = 2 /\ self.buffer_length = 64)
                /\ d.idProduct = 51457 (* 0xC901 *) =>
                      (self.endpoint = 1 /\ self.buffer_length = 32)
           /\ ~supported =>
                /\ sop.outcome = "RuntimeError"
                /\ io = <<>>
                /\ usb[sop.device] = [driver |-> TRUE, configured |-> FALSE]

\* A session was built on the Beam.
C12_Witness ==
    /\ sop.name = "__init__"
    /\ sop.device = "beam"
    /\ sop.outcome = "returned"
    /\ sess[sop.s].endpoint = 1
    /\ sess[sop.s].buffer_length = 32

\* C13: over the whole life of a session that claimed its transport the
\* transport is released exactly once, never twice, and the kernel driver
\* is reattached on that same transport exactly when it was detached at
\* claim time.
C13_ReleasedExactlyOnce ==
    \A s \in Sessions :
        LET self == sess[s]
        IN /\ self.released <= 1
           /\ self.misattached = 0
           /\ (self.st = "finalized" /\ self.device # "none") =>
                 /\ self.released = 1
                 /\ self.attached = IF self.reattach THEN 1 ELSE 0

\* The buffer of the power command with value v.
PowerCommand(v) ==
    <<17, 255, 4, 28, v, 0, 0, 0, 0, 0, 0, 0, 0, 0, 0, 0, 0, 0, 0, 0>>

C15_SessionsIndependent ==
    [][(sess["s1"]'.st = "active" /\ sess["s2"]'.st = "active"
        /\ sop'.s \in Sessions)
         => /\ \A i \in DOMAIN io' : io'[i].dev = sess'[sop'.s].device
            /\ \A s \in Sessions : sess'[s] # sess[s] => sop'.s = s]_vars

InRange(name, v) ==
    IF name = "brightness" THEN 20 <= v.v /\ v.v <= 250
    ELSE 2700 <= v.v /\ v.v <= 6500

\* C16: setting the brightness or the colour temperature of a session
\* writes the encoded command to the transport exactly when the value is
\* in range ([20,250], [2700,6500]); a rejected value causes no write.
C16_SetterWritesCommand ==
    sop.name \in {"brightness", "temperature"} =>
        IF InRange(sop.name, sop.arg)
        THEN /\ Len(io) >= 1
             /\ io[1].call = "write"
             /\ io[1].data =
                   litra_command(sop.name, BigInt(sop.arg.v, 0)).buf
        ELSE "write" \notin Calls

\* C17: once a cancellation is requested the polling loop exits within one
\* further poll read: it never makes a second read after the request.
C17_CancelStopsPolling ==
    cancel # "poll2"

\* C18: after every successful construction the device configuration has
\* been applied, whether or not a kernel driver was active; the driver is
\* detached exactly when it was active, and the reattach flag is true
\* exactly when a detach happened.
C18_ConfiguredAfterInit ==
    (sop.name = "__init__" /\ sop.outcome = "returned") =>
        LET was_active == io[1].ret = "True"
        IN /\ io[1].call = "is_kernel_driver_active"
           /\ "set_configuration" \in Calls
           /\ usb[sop.device].configured
           /\ "detach_kernel_driver" \in Calls <=> was_active
           /\ sess[sop.s].reattach <=> "detach_kernel_driver" \in Calls

====
